---- MODULE Spec2Model ----
(***************************************************************************)
(* Timeline composition engine of the React video editor                   *)
(* (components/react-video-editor.tsx): the two item collections, the      *)
(* append handlers addClip / addTextOverlay, updateTotalDuration, the      *)
(* Composition builder, the current-frame polling effect and               *)
(* handlePlayPause, together with the Remotion Player they talk to.        *)
(*                                                                         *)
(* A handler reads the clips and textOverlays captured by the render that   *)
(* created it (renderedClips, renderedTextOverlays).  React runs every UI   *)
(* event handler to completion and re-renders before the next event is      *)
(* dispatched, so in Spec and SpecAppend each handler step ends with the    *)
(* re-render; SpecBatched lets calls of the handlers of one render follow   *)
(* each other before React re-renders.                                      *)
(***************************************************************************)
EXTENDS Integers, Sequences, FiniteSets, TLC

\* ------------------------------------------------------------------ bounds
\* most items the two collections hold together
MaxItems == 6
\* the backend reports frames in 0..MaxFrame and its last frame
MaxFrame == 1
\* most commands handlePlayPause forwards to the backend
MaxCommands == 3

\* ------------------------------------------------------- program constants
ClipDuration == 200
TextDuration == 100
InitialTextStart == 50
ClipSrc == "open-source-video.mp4"
OverlayText == "BUILD."

VARIABLES
  clips,          \* useState<Clip[]>
  textOverlays,   \* useState<TextOverlay[]>
  totalDuration,  \* useState(1)
  currentFrame,   \* useState(0)
  isPlaying,      \* useState(false)
  playerRef,      \* playerRef.current is a mounted Player (TRUE) or null (FALSE)
  interval,       \* the setInterval timer of the polling effect is armed
  mounted,        \* the mount effects have run
  disposed,       \* the component was unmounted (effect cleanups have run)
  backendFrame,   \* what getCurrentFrame() returns: <<f>>, or <<>> for null
  commands,       \* play()/pause() calls received by the backend, in order
  pc,             \* position inside handlePlayPause: "idle" or "flip"
  appended,       \* ids of all items in the order they were inserted
  renderedClips,  \* the clips the handlers of the latest render close over
  renderedTextOverlays, \* the textOverlays those handlers close over
  lastItem,       \* const lastItem of the append handler that ran last
  lastOp          \* name of the step taken last

timelineVars == <<clips, textOverlays, totalDuration, appended,
                  renderedClips, renderedTextOverlays, lastItem>>
playbackVars == <<currentFrame, isPlaying, playerRef, backendFrame, commands, pc>>
lifeVars == <<interval, mounted, disposed>>
vars == <<clips, textOverlays, totalDuration, currentFrame, isPlaying,
          playerRef, interval, mounted, disposed, backendFrame, commands,
          pc, appended, renderedClips, renderedTextOverlays, lastItem,
          lastOp>>

\* ----------------------------------------------------------------- helpers
\* Math.min in the place of Math.max
Min(a, b) == IF a > b THEN b ELSE a

Max(a, b) == IF a > b THEN a ELSE b

\* item.start + item.duration
EndOf(item) == item.start + item.duration

\* [...clips, ...textOverlays]
Merged(cs, ts) == cs \o ts

\* Array.prototype.reduce(f, init), left to right
RECURSIVE Reduce(_, _, _)
Reduce(f(_, _), acc, s) ==
  IF s = <<>> THEN acc ELSE Reduce(f, f(acc, Head(s)), Tail(s))

\* a reducer that also replaces the accumulator on an equal end
PickLatestOnTie(latest, item) ==
  IF EndOf(item) >= EndOf(latest) THEN item ELSE latest

\* the reducer of the lastItem search: the item replaces the accumulator only
\* when its end is strictly greater
PickLatest(latest, item) ==
  IF EndOf(item) > EndOf(latest) THEN item ELSE latest

\* a search for the anchor that looks at the clips alone
LastItemClipsOnly(cs, ts) ==
  Reduce(PickLatest, [start |-> 0, duration |-> 0], cs)

\* lastItem of addClip / addTextOverlay
LastItem(cs, ts) ==
  Reduce(PickLatest, [start |-> 0, duration |-> 0], Merged(cs, ts))

\* an id taken from the length without the + 1
ClipIdNoIncrement(cs) == "clip-" \o ToString(Len(cs))

\* `clip-${clips.length + 1}`
ClipId(cs) == "clip-" \o ToString(Len(cs) + 1)

\* an id taken from the length without the + 1
TextIdNoIncrement(ts) == "text-" \o ToString(Len(ts))

\* `text-${textOverlays.length + 1}`
TextId(ts) == "text-" \o ToString(Len(ts) + 1)

\* a new clip placed at the anchor's start instead of its end
NewClipAtAnchorStart(cs, ts) ==
  [id |-> ClipId(cs),
   start |-> LastItem(cs, ts).start,
   duration |-> ClipDuration,
   src |-> ClipSrc,
   row |-> 0]

\* a new clip that gets the duration of a text overlay
NewClipTextDuration(cs, ts) ==
  [id |-> ClipId(cs),
   start |-> LastItem(cs, ts).start + LastItem(cs, ts).duration,
   duration |-> TextDuration,
   src |-> ClipSrc,
   row |-> 0]

\* newClip of addClip
NewClip(cs, ts) ==
  [id |-> ClipId(cs),
   start |-> LastItem(cs, ts).start + LastItem(cs, ts).duration,
   duration |-> ClipDuration,
   src |-> ClipSrc,
   row |-> 0]

\* a new overlay placed at the anchor's start instead of its end
NewOverlayAtAnchorStart(cs, ts) ==
  [id |-> TextId(ts),
   start |-> LastItem(cs, ts).start,
   duration |-> TextDuration,
   text |-> OverlayText,
   row |-> 0]

\* newOverlay of addTextOverlay
NewOverlay(cs, ts) ==
  [id |-> TextId(ts),
   start |-> LastItem(cs, ts).start + LastItem(cs, ts).duration,
   duration |-> TextDuration,
   text |-> OverlayText,
   row |-> 0]

\* reducer of updateTotalDuration: Math.max(max, item.start + item.duration)
MaxEndStep(max, item) == Max(max, EndOf(item))

\* a recompute that forgets the text overlays
UpdateTotalDurationClipsOnly(updatedClips, updatedTextOverlays) ==
  Reduce(MaxEndStep, 0, updatedClips)

\* a recompute that applies the floor of 1 itself
UpdateTotalDurationFloored(updatedClips, updatedTextOverlays) ==
  LET lastClipEnd == Reduce(MaxEndStep, 0, updatedClips)
      lastTextOverlayEnd == Reduce(MaxEndStep, 0, updatedTextOverlays)
  IN  Max(1, Max(lastClipEnd, lastTextOverlayEnd))

\* updateTotalDuration: the value handed to setTotalDuration
UpdateTotalDuration(updatedClips, updatedTextOverlays) ==
  LET lastClipEnd == Reduce(MaxEndStep, 0, updatedClips)
      lastTextOverlayEnd == Reduce(MaxEndStep, 0, updatedTextOverlays)
  IN  Max(lastClipEnd, lastTextOverlayEnd)

\* initialClip / initialTextOverlay of the mount effect
InitialClip ==
  [id |-> "clip-1", start |-> 0, duration |-> 200, src |-> ClipSrc, row |-> 0]
InitialTextOverlay ==
  [id |-> "text-1", start |-> InitialTextStart, duration |-> 100,
   text |-> OverlayText, row |-> 0]

\* ------------------------------------------------------------------- Init
\* the useState / useRef initial values, before the first commit
Init ==
  /\ clips = <<>>
  /\ textOverlays = <<>>
  /\ totalDuration = 1
  /\ currentFrame = 0
  /\ isPlaying = FALSE
  /\ playerRef = FALSE
  /\ interval = FALSE
  /\ mounted = FALSE
  /\ disposed = FALSE
  /\ backendFrame = <<0>>
  /\ commands = <<>>
  /\ pc = "idle"
  /\ appended = <<>>
  /\ renderedClips = <<>>
  /\ renderedTextOverlays = <<>>
  /\ lastItem = <<>>
  /\ lastOp = "init"

\* ---------------------------------------------------------------- appends
\* addClip: setClips([...clips, newClip]); updateTotalDuration(...), where
\* clips and textOverlays are the values the handler closed over
addClip ==
  /\ Len(appended) < MaxItems
  /\ lastItem' = LastItem(renderedClips, renderedTextOverlays)
  /\ LET newClip == NewClip(renderedClips, renderedTextOverlays)
     IN  /\ clips' = Append(renderedClips, newClip)
         /\ totalDuration' = UpdateTotalDuration(Append(renderedClips, newClip),
                                                 renderedTextOverlays)
         /\ appended' = Append(appended, newClip.id)
  /\ lastOp' = "addClip"
  /\ UNCHANGED <<textOverlays, playbackVars, lifeVars>>

\* an addTextOverlay that sets the collection to the new overlay alone
addTextOverlayReplacing ==
  /\ Len(appended) < MaxItems
  /\ lastItem' = LastItem(renderedClips, renderedTextOverlays)
  /\ LET newOverlay == NewOverlay(renderedClips, renderedTextOverlays)
     IN  /\ textOverlays' = <<newOverlay>>
         /\ totalDuration' = UpdateTotalDuration(renderedClips,
                                                 Append(renderedTextOverlays, newOverlay))
         /\ appended' = Append(appended, newOverlay.id)
  /\ lastOp' = "addTextOverlay"
  /\ UNCHANGED <<clips, playbackVars, lifeVars>>

\* addTextOverlay: setTextOverlays([...textOverlays, newOverlay]);
\* updateTotalDuration(...), on the values the handler closed over
addTextOverlay ==
  /\ Len(appended) < MaxItems
  /\ lastItem' = LastItem(renderedClips, renderedTextOverlays)
  /\ LET newOverlay == NewOverlay(renderedClips, renderedTextOverlays)
     IN  /\ textOverlays' = Append(renderedTextOverlays, newOverlay)
         /\ totalDuration' = UpdateTotalDuration(renderedClips,
                                                 Append(renderedTextOverlays, newOverlay))
         /\ appended' = Append(appended, newOverlay.id)
  /\ lastOp' = "addTextOverlay"
  /\ UNCHANGED <<clips, playbackVars, lifeVars>>

\* a re-render that keeps handing out the handlers of the previous render
RerenderStale == UNCHANGED <<renderedClips, renderedTextOverlays>>

\* the re-render React performs with the state the step has set: the new
\* handlers close over the new clips and textOverlays
Rerender ==
  /\ renderedClips' = clips'
  /\ renderedTextOverlays' = textOverlays'

\* one click on "+ Video" / "+ Text": the handler, then the re-render
AppendClip == addClip /\ Rerender
AppendText == addTextOverlay /\ Rerender

\* the placement engine driven from the empty timeline of Init
NextAppend == AppendClip \/ AppendText
SpecAppend == Init /\ [][NextAppend]_vars

\* ------------------------------------------------------ composition builder
\* one step of a stable sort with comparator (a, b) => a.start - b.start:
\* item goes behind every element whose start is not greater than its own
RECURSIVE InsertByStart(_, _)
InsertByStart(sorted, item) ==
  IF sorted = <<>> THEN <<item>>
  ELSE IF Head(sorted).start - item.start > 0
       THEN <<item>> \o sorted
       ELSE <<Head(sorted)>> \o InsertByStart(Tail(sorted), item)

\* a builder that leaves the merged items in place
UnsortedByStart(s) == s

\* .sort((a, b) => a.start - b.start): Array.prototype.sort is stable
SortByStart(s) == Reduce(InsertByStart, <<>>, s)

\* a block whose dispatch on "src" in item is inverted
RenderBlockInverted(item) ==
  [key |-> item.id,
   from |-> item.start,
   durationInFrames |-> item.duration,
   kind |-> IF "src" \in DOMAIN item THEN "text" ELSE "video"]

\* <Sequence key from durationInFrames> with a Video or a TextOverlayComponent
RenderBlock(item) ==
  [key |-> item.id,
   from |-> item.start,
   durationInFrames |-> item.duration,
   kind |-> IF "src" \in DOMAIN item THEN "video" ELSE "text"]

\* Composition: the blocks of [...clips, ...textOverlays] sorted by start
Composition(cs, ts) ==
  LET sorted == SortByStart(Merged(cs, ts))
  IN  [i \in DOMAIN sorted |-> RenderBlock(sorted[i])]

\* ------------------------------------------------------------ mount effects
\* the effect "add initial clip and text overlay" (deps [])
SeedTimeline ==
  IF Len(renderedClips) = 0 /\ Len(renderedTextOverlays) = 0
  THEN /\ clips' = <<InitialClip>>
       /\ textOverlays' = <<InitialTextOverlay>>
       /\ totalDuration' = UpdateTotalDuration(<<InitialClip>>, <<InitialTextOverlay>>)
       /\ appended' = appended \o <<InitialClip.id, InitialTextOverlay.id>>
  ELSE UNCHANGED <<clips, textOverlays, totalDuration, appended>>

\* the effect "updating current frame" (deps []): setInterval(..., 1000 / 30)
StartPolling == interval' = TRUE

\* first commit: the effects with empty dependency lists run once, in order
Mount ==
  /\ ~mounted
  /\ ~disposed
  /\ mounted' = TRUE
  /\ StartPolling
  /\ SeedTimeline
  /\ Rerender
  /\ lastOp' = "mount"
  /\ UNCHANGED <<playbackVars, disposed, lastItem>>

\* a cleanup that leaves the timer armed
StopPollingLeak == interval' = interval

\* cleanup of the polling effect on unmount: clearInterval(interval)
StopPolling == interval' = FALSE

\* the editor is unmounted: effect cleanups run
Dispose ==
  /\ mounted
  /\ ~disposed
  /\ pc = "idle"
  /\ disposed' = TRUE
  /\ StopPolling
  /\ lastOp' = "dispose"
  /\ UNCHANGED <<timelineVars, playbackVars, mounted>>

\* ------------------------------------------------------------- UI handlers
\* the component is on screen and no handler is running
Interactive == mounted /\ ~disposed /\ pc = "idle"

\* onAddClip={addClip}
OnAddClip == Interactive /\ AppendClip

\* onAddText={addTextOverlay}
OnAddText == Interactive /\ AppendText

\* the two branches of handlePlayPause swapped
PlayPauseCommandSwapped(playing) == IF playing THEN "play" ELSE "pause"

\* the command handlePlayPause picks: pause() when isPlaying, else play()
PlayPauseCommand(playing) == IF playing THEN "pause" ELSE "play"

\* handlePlayPause without the check of playerRef.current
HandlePlayPauseUnguarded ==
  /\ Interactive
  /\ Len(commands) < MaxCommands
  /\ commands' = Append(commands, PlayPauseCommand(isPlaying))
  /\ pc' = "flip"
  /\ lastOp' = "handlePlayPause"
  /\ UNCHANGED <<timelineVars, lifeVars, currentFrame, isPlaying, playerRef, backendFrame>>

\* handlePlayPause up to and including the call on playerRef.current; with a
\* null ref the handler returns without doing anything
HandlePlayPause ==
  /\ Interactive
  /\ IF playerRef
     THEN /\ Len(commands) < MaxCommands
          /\ commands' = Append(commands, PlayPauseCommand(isPlaying))
          /\ pc' = "flip"
     ELSE UNCHANGED <<commands, pc>>
  /\ lastOp' = "handlePlayPause"
  /\ UNCHANGED <<timelineVars, lifeVars, currentFrame, isPlaying, playerRef, backendFrame>>

\* a last statement that stores isPlaying back without negating it
SetIsPlayingNoFlip ==
  /\ pc = "flip"
  /\ isPlaying' = isPlaying
  /\ pc' = "idle"
  /\ lastOp' = "setIsPlaying"
  /\ UNCHANGED <<timelineVars, lifeVars, currentFrame, playerRef, backendFrame, commands>>

\* handlePlayPause, last statement: setIsPlaying(!isPlaying)
SetIsPlaying ==
  /\ pc = "flip"
  /\ isPlaying' = ~isPlaying
  /\ pc' = "idle"
  /\ lastOp' = "setIsPlaying"
  /\ UNCHANGED <<timelineVars, lifeVars, currentFrame, playerRef, backendFrame, commands>>

\* ------------------------------------------------------------ frame polling
\* an interval callback that publishes the frame after the reported one
PollOffByOne ==
  /\ interval
  /\ pc = "idle"
  /\ IF playerRef
     THEN LET frame == backendFrame
          IN  IF frame # <<>>
              THEN currentFrame' = frame[1] + 1
              ELSE UNCHANGED currentFrame
     ELSE UNCHANGED currentFrame
  /\ lastOp' = "poll"
  /\ UNCHANGED <<timelineVars, lifeVars, isPlaying, playerRef, backendFrame, commands, pc>>

\* one run of the interval callback
Poll ==
  /\ interval
  /\ pc = "idle"
  /\ IF playerRef
     THEN LET frame == backendFrame
          IN  IF frame # <<>>
              THEN currentFrame' = frame[1]
              ELSE UNCHANGED currentFrame
     ELSE UNCHANGED currentFrame
  /\ lastOp' = "poll"
  /\ UNCHANGED <<timelineVars, lifeVars, isPlaying, playerRef, backendFrame, commands, pc>>

\* ------------------------------------------------------------- environment
\* durationInFrames={Math.max(1, totalDuration)}
DurationInFrames == Max(1, totalDuration)

\* what the Player may answer to getCurrentFrame(): null or a frame of its
\* composition, the first few frames and the last one here
FrameReports ==
  {<<>>} \cup {<<f>> : f \in {g \in 0..MaxFrame : g < DurationInFrames}
                              \cup {DurationInFrames - 1}}

\* the Player moves its playhead (playback, seek) or has no frame to report
BackendTick ==
  /\ pc = "idle"
  /\ \E r \in FrameReports :
       /\ r # backendFrame
       /\ backendFrame' = r
  /\ lastOp' = "backend"
  /\ UNCHANGED <<timelineVars, lifeVars, currentFrame, isPlaying, playerRef, commands, pc>>

\* ref={playerRef}: the Player mounts and React stores its handle in the ref
PlayerAttach ==
  /\ pc = "idle"
  /\ ~playerRef
  /\ playerRef' = TRUE
  /\ lastOp' = "attach"
  /\ UNCHANGED <<timelineVars, lifeVars, currentFrame, isPlaying, backendFrame, commands, pc>>

\* the Player unmounts and React resets the ref to null
PlayerDetach ==
  /\ pc = "idle"
  /\ playerRef
  /\ playerRef' = FALSE
  /\ lastOp' = "detach"
  /\ UNCHANGED <<timelineVars, lifeVars, currentFrame, isPlaying, backendFrame, commands, pc>>

\* --------------------------------------------------------------- the editor
Next ==
  \/ Mount
  \/ Dispose
  \/ OnAddClip
  \/ OnAddText
  \/ HandlePlayPause
  \/ SetIsPlaying
  \/ Poll
  \/ BackendTick
  \/ PlayerAttach
  \/ PlayerDetach

Spec == Init /\ [][Next]_vars

\* ------------------------------------- handler calls without a re-render
\* addClip of the latest render is called and React has not re-rendered yet
CallAddClip ==
  /\ Interactive
  /\ addClip
  /\ UNCHANGED <<renderedClips, renderedTextOverlays>>

\* addTextOverlay of the latest render is called, no re-render yet
CallAddText ==
  /\ Interactive
  /\ addTextOverlay
  /\ UNCHANGED <<renderedClips, renderedTextOverlays>>

\* React re-renders with the state set so far; new handlers are created
Render ==
  /\ Interactive
  /\ (renderedClips # clips \/ renderedTextOverlays # textOverlays)
  /\ renderedClips' = clips
  /\ renderedTextOverlays' = textOverlays
  /\ lastOp' = "render"
  /\ UNCHANGED <<clips, textOverlays, totalDuration, appended, lastItem,
                 playbackVars, lifeVars>>

\* the timeline when handler calls may precede the re-render
NextBatched ==
  \/ Mount
  \/ CallAddClip
  \/ CallAddText
  \/ Render

SpecBatched == Init /\ [][NextBatched]_vars

\* ------------------------------------------- the anchor search on its own
\* longest collection handed to the anchor search
MaxAnchorLen == 2

\* clips with starts and durations in 0..1, ids by position as addClip gives
AnchorClips ==
  UNION {[1..n -> [start : 0..1, duration : 0..1]] : n \in 0..MaxAnchorLen}

\* the items of a collection drawn for the anchor search, as Clip objects
AsClips(s) ==
  [k \in DOMAIN s |->
     [id |-> "clip-" \o ToString(k), start |-> s[k].start,
      duration |-> s[k].duration, src |-> ClipSrc, row |-> 0]]

\* the same as TextOverlay objects
AsOverlays(s) ==
  [k \in DOMAIN s |->
     [id |-> "text-" \o ToString(k), start |-> s[k].start,
      duration |-> s[k].duration, text |-> OverlayText, row |-> 0]]

\* a rendered editor holding any two small collections, ends possibly equal
InitAnchor ==
  /\ \E c \in AnchorClips : clips = AsClips(c)
  /\ \E t \in AnchorClips : textOverlays = AsOverlays(t)
  /\ renderedClips = clips
  /\ renderedTextOverlays = textOverlays
  /\ totalDuration = UpdateTotalDuration(clips, textOverlays)
  /\ appended = [k \in 1..(Len(clips) + Len(textOverlays)) |->
                   Merged(clips, textOverlays)[k].id]
  /\ lastItem = <<>>
  /\ currentFrame = 0
  /\ isPlaying = FALSE
  /\ playerRef = FALSE
  /\ interval = FALSE
  /\ mounted = FALSE
  /\ disposed = FALSE
  /\ backendFrame = <<0>>
  /\ commands = <<>>
  /\ pc = "idle"
  /\ lastOp = "init"

\* the append handlers applied to those collections
SpecAnchor == InitAnchor /\ [][NextAppend]_vars

\* =================================================================== claims
\* all items of both collections
AllItems == Merged(clips, textOverlays)

\* the largest member of a non-empty finite set of integers
SetMax(S) == CHOOSE m \in S : \A x \in S : x <= m

\* the largest start+duration over both collections, 0 when both are empty
JointEnd == SetMax({0} \cup {EndOf(AllItems[i]) : i \in DOMAIN AllItems})

\* the half-open intervals [start, start+duration) of a and b share a frame
Overlap(a, b) == a.start < EndOf(b) /\ b.start < EndOf(a)

\* C1 (under SpecAppend): after any sequence of addClip / addTextOverlay calls
\* from the empty timeline, no two distinct items of clips and textOverlays
\* together have overlapping intervals [start, start+duration).
C1_NonOverlap ==
  \A i, j \in DOMAIN AllItems :
    i # j => ~Overlap(AllItems[i], AllItems[j])

\* C1 witness: both collections hold two appended items each
C1_Witness ==
  /\ ~mounted
  /\ Len(clips) >= 2
  /\ Len(textOverlays) >= 2

\* C2: in every state (Init, after the mount seeding, after each append)
\* totalDuration is the largest start+duration over all items, and 1 while
\* both collections are empty.
C2_DurationConsistent ==
  totalDuration = (IF AllItems = <<>> THEN 1 ELSE JointEnd)

\* C2 witness: a text overlay was just appended after the seeding and it is
\* the item that ends last
C2_Witness ==
  /\ lastOp = "addTextOverlay"
  /\ Len(textOverlays) >= 2
  /\ Len(clips) >= 2
  /\ EndOf(textOverlays[Len(textOverlays)]) = totalDuration

\* C3 (under SpecAppend): every item an append creates starts at the largest
\* start+duration over both collections as they were before the append (0 for
\* an empty timeline); a clip appended to the empty timeline starts at 0 and a
\* text overlay appended after one 200-frame clip starts at 200.
C3_Placement ==
  [][ /\ (Len(clips') > Len(clips) =>
            clips'[Len(clips')].start = JointEnd)
      /\ (Len(textOverlays') > Len(textOverlays) =>
            textOverlays'[Len(textOverlays')].start = JointEnd)
      /\ (clips = <<>> /\ textOverlays = <<>> /\ Len(clips') = 1 =>
            clips'[1].start = 0)
      /\ (/\ Len(clips) = 1
          /\ clips[1].start = 0
          /\ clips[1].duration = 200
          /\ textOverlays = <<>>
          /\ Len(textOverlays') = 1
          => textOverlays'[1].start = 200) ]_vars

\* C3 witness: a clip at 0, a text overlay at 200 and a clip appended after
\* both, placed behind the overlay
C3_Witness ==
  /\ ~mounted
  /\ Len(clips) = 2
  /\ Len(textOverlays) = 1
  /\ clips[1].start = 0
  /\ textOverlays[1].start = 200
  /\ clips[2].start = 300

\* C4 (under SpecAppend): from the empty timeline one addClip gives
\* clips = [clip-1 at 0 for 200 frames on row 0] and totalDuration 200; a
\* following addTextOverlay gives textOverlays = [text-1 at 200 for 100 frames
\* on row 0] and totalDuration 300.
C4_Scenario ==
  /\ (Len(appended) = 1 /\ lastOp = "addClip" =>
        /\ Len(clips) = 1
        /\ textOverlays = <<>>
        /\ clips[1].id = "clip-1"
        /\ clips[1].start = 0
        /\ clips[1].duration = 200
        /\ clips[1].row = 0
        /\ totalDuration = 200)
  /\ (Len(appended) = 2 /\ Len(clips) = 1 /\ lastOp = "addTextOverlay" =>
        /\ clips[1].id = "clip-1"
        /\ clips[1].start = 0
        /\ clips[1].duration = 200
        /\ clips[1].row = 0
        /\ Len(textOverlays) = 1
        /\ textOverlays[1].id = "text-1"
        /\ textOverlays[1].start = 200
        /\ textOverlays[1].duration = 100
        /\ textOverlays[1].row = 0
        /\ totalDuration = 300)

\* C4 witness: addClip then addTextOverlay were called on the empty timeline
C4_Witness ==
  /\ ~mounted
  /\ Len(appended) = 2
  /\ Len(clips) = 1
  /\ lastOp = "addTextOverlay"

\* C5: in every state no two items of clips and textOverlays share an id, and
\* the k-th clip carries the id clip-k, the k-th text overlay the id text-k
\* (the id made from the collection's length at the time of the append).
C5_IdsUnique ==
  /\ \A i, j \in DOMAIN AllItems :
       i # j => AllItems[i].id # AllItems[j].id
  /\ \A k \in DOMAIN clips : clips[k].id = "clip-" \o ToString(k)
  /\ \A k \in DOMAIN textOverlays : textOverlays[k].id = "text-" \o ToString(k)

\* C5 witness: clips and text overlays were appended after the seeding
C5_Witness ==
  /\ mounted
  /\ Len(clips) >= 3
  /\ Len(textOverlays) >= 2

\* position of an id in the insertion order
AppendIndex(id) == CHOOSE k \in DOMAIN appended : appended[k] = id

C7_SynchronizerCleanup ==
  [][disposed => currentFrame' = currentFrame]_vars

\* C7 witness: after disposal the mounted backend has moved on to a frame that
\* differs from currentFrame
C7_Witness ==
  /\ disposed
  /\ playerRef
  /\ lastOp = "backend"
  /\ backendFrame # <<>>
  /\ backendFrame[1] # currentFrame

\* C8: currentFrame changes only in a polling sample, and a sample that reads
\* a frame from the mounted backend leaves currentFrame equal to that frame;
\* appends, the duration recompute, handlePlayPause and every other step leave
\* currentFrame unchanged.
C8_BackendIsFrameAuthority ==
  [][ /\ (currentFrame' # currentFrame =>
            /\ lastOp' = "poll"
            /\ playerRef
            /\ backendFrame # <<>>)
      /\ (lastOp' = "poll" /\ playerRef /\ backendFrame # <<>> =>
            currentFrame' = backendFrame[1])
      /\ (lastOp' \in {"addClip", "addTextOverlay", "handlePlayPause",
                       "setIsPlaying", "mount"} =>
            currentFrame' = currentFrame) ]_vars

\* C8 witness: a sample has just republished a backend frame other than the
\* initial one
C8_Witness ==
  /\ lastOp = "poll"
  /\ currentFrame > 0
  /\ backendFrame = <<currentFrame>>

\* C9: with the backend mounted, handlePlayPause forwards exactly one command,
\* pause() if isPlaying and play() otherwise, and isPlaying is negated only in
\* the step after that command was issued; no other step changes isPlaying or
\* issues a command.
C9_PlayPause ==
  [][ /\ (lastOp' = "handlePlayPause" /\ playerRef =>
            /\ commands' = Append(commands,
                                  IF isPlaying THEN "pause" ELSE "play")
            /\ isPlaying' = isPlaying
            /\ pc' = "flip")
      /\ (pc = "flip" =>
            /\ isPlaying' = ~isPlaying
            /\ commands' = commands
            /\ pc' = "idle")
      /\ (isPlaying' # isPlaying =>
            /\ pc = "flip"
            /\ lastOp = "handlePlayPause"
            /\ commands # <<>>
            /\ commands[Len(commands)] = (IF isPlaying THEN "pause" ELSE "play"))
      /\ (commands' # commands => lastOp' = "handlePlayPause") ]_vars

\* C9 witness: play() then pause() were forwarded and isPlaying followed each
C9_Witness ==
  /\ commands = <<"play", "pause">>
  /\ lastOp = "setIsPlaying"
  /\ ~isPlaying

\* C10: with playerRef.current null a sample leaves currentFrame unchanged and
\* handlePlayPause issues no command and leaves isPlaying unchanged; a sample
\* to which the mounted backend answers null leaves currentFrame unchanged; in
\* each case the handler returns and the polling timer stays armed.
C10_BackendUnavailable ==
  [][ /\ (lastOp' = "poll" /\ ~playerRef =>
            /\ currentFrame' = currentFrame
            /\ interval' = interval)
      /\ (lastOp' = "handlePlayPause" /\ ~playerRef =>
            /\ commands' = commands
            /\ isPlaying' = isPlaying
            /\ pc' = "idle")
      /\ (lastOp' = "poll" /\ playerRef /\ backendFrame = <<>> =>
            /\ currentFrame' = currentFrame
            /\ interval' = interval) ]_vars

\* C10 witness: handlePlayPause was invoked while the ref was null, after an
\* earlier play(); no command was added and isPlaying is still true
C10_Witness ==
  /\ lastOp = "handlePlayPause"
  /\ ~playerRef
  /\ pc = "idle"
  /\ commands = <<"play">>
  /\ isPlaying

\* C11: every call of addClip / addTextOverlay, also one made before the
\* component has re-rendered with the result of the previous call, computes
\* its item and the new totalDuration from collections that hold every item
\* appended before it, and no appended item is lost.
C11_AtomicAppends ==
  [][ mounted /\ Len(appended') > Len(appended) =>
        /\ renderedClips = clips
        /\ renderedTextOverlays = textOverlays
        /\ Len(clips') + Len(textOverlays') = Len(appended') ]_vars

\* the items of s before position n are those of t, in place
KeepsPrefix(t, s) == Len(s) >= Len(t) /\ SubSeq(s, 1, Len(t)) = t

\* C12 as claimed: every item that enters clips or textOverlays is created by
\* addClip / addTextOverlay with start equal to the joint maximum end before
\* the step; no other step inserts an item and no step edits, moves or deletes
\* one.
C12_Lifecycle ==
  [][ /\ KeepsPrefix(clips, clips')
      /\ KeepsPrefix(textOverlays, textOverlays')
      /\ \A k \in DOMAIN clips' :
           k > Len(clips) =>
             lastOp' = "addClip" /\ clips'[k].start = JointEnd
      /\ \A k \in DOMAIN textOverlays' :
           k > Len(textOverlays) =>
             lastOp' = "addTextOverlay" /\ textOverlays'[k].start = JointEnd ]_vars

\* C12 amended: an item enters the collections either in the mount effect,
\* which puts clip-1 at 0 and text-1 at 50 into the empty collections without
\* calling the append handlers, or through addClip / addTextOverlay with start
\* equal to the joint maximum end before the step; no step edits, moves or
\* deletes an item.
C12_LifecycleAmended ==
  [][ /\ KeepsPrefix(clips, clips')
      /\ KeepsPrefix(textOverlays, textOverlays')
      /\ \A k \in DOMAIN clips' :
           k > Len(clips) =>
             \/ lastOp' = "addClip" /\ clips'[k].start = JointEnd
             \/ /\ lastOp' = "mount"
                /\ AllItems = <<>>
                /\ k = 1
                /\ clips'[k].id = "clip-1"
                /\ clips'[k].start = 0
      /\ \A k \in DOMAIN textOverlays' :
           k > Len(textOverlays) =>
             \/ lastOp' = "addTextOverlay" /\ textOverlays'[k].start = JointEnd
             \/ /\ lastOp' = "mount"
                /\ AllItems = <<>>
                /\ k = 1
                /\ textOverlays'[k].id = "text-1"
                /\ textOverlays'[k].start = 50 ]_vars

\* C12 witness: the seeded overlay still stands at 50 after clips and overlays
\* were appended behind it
C12_Witness ==
  /\ mounted
  /\ lastOp = "addTextOverlay"
  /\ Len(clips) >= 2
  /\ Len(textOverlays) >= 2
  /\ textOverlays[1].start = 50
  /\ clips[1].start = 0

\* C13: the Composition has exactly one block per item of clips and
\* textOverlays; the block of an item has from = start and durationInFrames =
\* duration, and is a video block exactly when the item is a clip.
C13_BuilderOutput ==
  LET out == Composition(clips, textOverlays)
  IN  /\ Len(out) = Len(AllItems)
      /\ \A i \in DOMAIN AllItems :
           LET blocks == {j \in DOMAIN out : out[j].key = AllItems[i].id}
           IN  /\ Cardinality(blocks) = 1
               /\ \A j \in blocks :
                    /\ out[j].from = AllItems[i].start
                    /\ out[j].durationInFrames = AllItems[i].duration
                    /\ (out[j].kind = "video") <=> (i <= Len(clips))
                    /\ out[j].kind \in {"video", "text"}

\* C13 witness: a composition in which the sort has moved a text block between
\* two video blocks
C13_Witness ==
  /\ Len(clips) >= 2
  /\ Len(textOverlays) >= 2
  /\ Composition(clips, textOverlays)[2].kind = "text"
  /\ Composition(clips, textOverlays)[3].kind = "video"

\* the ends of the items of one collection
Ends(s) == {EndOf(s[i]) : i \in DOMAIN s}

\* C14: updateTotalDuration yields max(lastClipEnd, lastTextOverlayEnd), each
\* side floored at 0, and that value is stored without a floor of 1 (0 for two
\* empty collections); the Player gets max(1, totalDuration), which is
\* positive in every state.
C14_FloorAtBoundary ==
  /\ UpdateTotalDuration(<<>>, <<>>) = 0
  /\ UpdateTotalDuration(clips, textOverlays) =
       Max(SetMax({0} \cup Ends(clips)), SetMax({0} \cup Ends(textOverlays)))
  /\ (mounted => totalDuration = UpdateTotalDuration(clips, textOverlays))
  /\ DurationInFrames = (IF totalDuration < 1 THEN 1 ELSE totalDuration)
  /\ DurationInFrames > 0

\* C14 witness: updateTotalDuration has run in an append and its result is
\* handed to the Player as it is
C14_Witness ==
  /\ lastOp = "addClip"
  /\ totalDuration > 1
  /\ totalDuration = EndOf(clips[Len(clips)])
  /\ DurationInFrames = totalDuration

\* C15: every item has a start >= 0, a duration > 0 and row 0; every clip has
\* duration 200 and every text overlay duration 100.
C15_ItemValidity ==
  /\ \A i \in DOMAIN AllItems :
       /\ AllItems[i].start \in Nat
       /\ AllItems[i].duration \in Nat \ {0}
       /\ AllItems[i].row = 0
  /\ \A k \in DOMAIN clips : clips[k].duration = 200
  /\ \A k \in DOMAIN textOverlays : textOverlays[k].duration = 100

\* C15 witness: seeded and appended items of both kinds
C15_Witness ==
  /\ mounted
  /\ Len(clips) >= 2
  /\ Len(textOverlays) >= 3

\* C16 as claimed: clips and textOverlays change only in addClip and
\* addTextOverlay; addClip adds one item at the end of clips and leaves the
\* older clips and textOverlays as they are, addTextOverlay does the same for
\* textOverlays; samples and handlePlayPause change neither collection.
C16_AppendOnly ==
  [][ /\ (lastOp' = "addClip" =>
            /\ Len(clips') = Len(clips) + 1
            /\ KeepsPrefix(clips, clips')
            /\ textOverlays' = textOverlays)
      /\ (lastOp' = "addTextOverlay" =>
            /\ Len(textOverlays') = Len(textOverlays) + 1
            /\ KeepsPrefix(textOverlays, textOverlays')
            /\ clips' = clips)
      /\ (clips' # clips \/ textOverlays' # textOverlays =>
            lastOp' \in {"addClip", "addTextOverlay"})
      /\ (lastOp' \in {"poll", "handlePlayPause", "setIsPlaying"} =>
            clips' = clips /\ textOverlays' = textOverlays) ]_vars

\* C16 amended: the collections change only in addClip, addTextOverlay and
\* the mount effect, which sets both empty collections to one seeded item
\* each; the rest as claimed.
C16_AppendOnlyAmended ==
  [][ /\ (lastOp' = "addClip" =>
            /\ Len(clips') = Len(clips) + 1
            /\ KeepsPrefix(clips, clips')
            /\ textOverlays' = textOverlays)
      /\ (lastOp' = "addTextOverlay" =>
            /\ Len(textOverlays') = Len(textOverlays) + 1
            /\ KeepsPrefix(textOverlays, textOverlays')
            /\ clips' = clips)
      /\ (clips' # clips \/ textOverlays' # textOverlays =>
            \/ lastOp' \in {"addClip", "addTextOverlay"}
            \/ /\ lastOp' = "mount"
               /\ AllItems = <<>>
               /\ Len(clips') = 1
               /\ Len(textOverlays') = 1)
      /\ (lastOp' \in {"poll", "handlePlayPause", "setIsPlaying"} =>
            clips' = clips /\ textOverlays' = textOverlays) ]_vars

\* C16 witness: a text overlay was appended behind two others and two clips
C16_Witness ==
  /\ lastOp = "addTextOverlay"
  /\ Len(textOverlays) = 3
  /\ Len(clips) = 2

\* C17: totalDuration never decreases from one state to the next.
C17_MonotonicDuration ==
  [][totalDuration' >= totalDuration]_vars

\* C17 witness: the duration has grown from 1 over 200 and 400 to 500
C17_Witness ==
  /\ lastOp = "addTextOverlay"
  /\ Len(clips) = 2
  /\ Len(textOverlays) = 2
  /\ totalDuration = 500

\* the collections the append handler that ran last has searched
Searched == renderedClips \o renderedTextOverlays

\* C18 (under SpecAnchor): the anchor search over [...clips, ...textOverlays]
\* returns the initial accumulator {start: 0, duration: 0} when no item ends
\* after frame 0, and otherwise the first item in merged order whose end is
\* the maximum end; of two items with the same end the earlier one is kept.
C18_AnchorTieBreak ==
  [][ Len(appended') > Len(appended) =>
        LET ends == {EndOf(Searched[i]) : i \in DOMAIN Searched}
            top == SetMax({0} \cup ends)
        IN  IF top = 0
            THEN lastItem' = [start |-> 0, duration |-> 0]
            ELSE \E i \in DOMAIN Searched :
                   /\ lastItem' = Searched[i]
                   /\ EndOf(Searched[i]) = top
                   /\ \A j \in DOMAIN Searched :
                        EndOf(Searched[j]) = top => i <= j ]_vars

\* C18 witness: an append whose anchor is a clip although a text overlay
\* behind it in merged order has the same end
C18_Witness ==
  /\ lastOp = "addTextOverlay"
  /\ lastItem # <<>>
  /\ "src" \in DOMAIN lastItem
  /\ EndOf(lastItem) > 0
  /\ Len(textOverlays) >= 2
  /\ EndOf(textOverlays[1]) = EndOf(lastItem)

\* C19: the commands forwarded to the backend alternate and start with play():
\* the k-th command is play() for odd k and pause() for even k, so no two equal
\* commands are adjacent; and whenever no handler is running, isPlaying is
\* true exactly when a command was issued and the last one was play().
C19_CommandsAlternate ==
  /\ \A k \in DOMAIN commands :
       commands[k] = (IF k % 2 = 1 THEN "play" ELSE "pause")
  /\ \A k \in DOMAIN commands :
       k > 1 => commands[k] # commands[k - 1]
  /\ (pc = "idle" =>
        (isPlaying <=>
           (commands # <<>> /\ commands[Len(commands)] = "play")))

\* C19 witness: play(), pause(), play() have been issued, and a later
\* handlePlayPause with the backend not mounted has returned; isPlaying holds
C19_Witness ==
  /\ commands = <<"play", "pause", "play">>
  /\ isPlaying
  /\ pc = "idle"
  /\ ~playerRef
  /\ lastOp = "handlePlayPause"

\* C20: with a backend that reports only frames of the composition it was
\* given (0 <= f < max(1, totalDuration)), the playhead stays inside the
\* timeline in every reachable state: 0 <= currentFrame < max(1,
\* totalDuration), and totalDuration is positive, so the playhead fraction
\* currentFrame / totalDuration is defined and at most 1.
C20_PlayheadInTimeline ==
  /\ currentFrame >= 0
  /\ currentFrame < Max(1, totalDuration)
  /\ totalDuration > 0
  /\ currentFrame <= totalDuration

\* C20 witness: after the seeding and a later append, a polling sample has
\* published the last frame of the grown timeline
C20_Witness ==
  /\ lastOp = "poll"
  /\ Len(appended) > 2
  /\ totalDuration > ClipDuration
  /\ currentFrame = totalDuration - 1

====
